---- MODULE Spec2Model ----
(***************************************************************************)
(* A model of nanoplot/NanoPlot.py: main (the orchestration with its       *)
(* barcode fan-out and its top-level error boundary), make_stats,          *)
(* make_plots (the column-gated plot selection) and make_report.           *)
(*                                                                         *)
(* The external collaborators (nanoget, nanomath, nanoplotter, the filter  *)
(* stage, the report templates) are represented by what main hands to them *)
(* and by the lists they hand back.  A file path is a sequence of string   *)
(* pieces, so that "+" on paths is \o.  A table is a sequence of rows; a   *)
(* row keeps its index label (id), as a pandas selection does.             *)
(***************************************************************************)
EXTENDS Integers, Sequences, FiniteSets, TLC

VARIABLES pc, input, args, settings, datadf, cols, loop, plots,
          requests, written, out

vars == <<pc, input, args, settings, datadf, cols, loop, plots,
          requests, written, out>>

(***************************************************************************)
(* Bounds of the model.                                                    *)
(***************************************************************************)
NRuns == 3                \* a fan-out table is made of NRuns runs of equal barcode
MaxRun == 6               \* the longest run of rows with one barcode
MaxRows == 3              \* rows of the small tables of the plot-selection runs
ArtifactsPerRequest == 2  \* artifacts the plotting backend returns per request

(***************************************************************************)
(* Program constants.                                                      *)
(***************************************************************************)
BarcodeThreshold == 5     \* main: if len(dfbarc) > 5

Barcodes == {"b1", "b2", "b3"}
Lengths == {1, 2, 6}
OptionalCols == {"quals", "channelIDs", "start_time", "aligned_lengths",
                 "mapQ", "percentIdentity", "aligned_quals"}
ValidColors == {"#4CB391"}
ValidColormaps == {"Greens"}
ValidFormats == {"png"}
None == 0                 \* Python's None where a length (always >= 1) may stand

(***************************************************************************)
(* Helpers on sequences and tables.                                        *)
(***************************************************************************)
RECURSIVE Flatten(_)
Flatten(ss) == IF ss = <<>> THEN <<>> ELSE Head(ss) \o Flatten(Tail(ss))

Repeat(x, n) == [i \in 1..n |-> x]

Column(df, c) == [i \in 1..Len(df) |-> df[i][c]]

Ids(df) == Column(df, "id")

\* datadf[datadf["length_filter"]]
Filtered(df) == SelectSeq(df, LAMBDA r : r.length_filter)

\* datadf[datadf["barcode"] == barc]
OfBarcode(df, barc) == SelectSeq(df, LAMBDA r : r.barcode = barc)

IsFirst(s, i) == \A j \in 1..(i - 1) : s[j] # s[i]

\* pandas Series.unique(): the distinct values in the order of first appearance
RECURSIVE unique(_)
unique(s) ==
    IF s = <<>> THEN <<>>
    ELSE LET init == unique(SubSeq(s, 1, Len(s) - 1))
             last == s[Len(s)]
         IN  IF \E j \in 1..Len(init) : init[j] = last
             THEN init ELSE Append(init, last)

\* np.sort: ascending insertion sort
RECURSIVE Insert(_, _)
Insert(x, s) ==
    IF s = <<>> THEN <<x>>
    ELSE IF x <= Head(s) THEN <<x>> \o s
    ELSE <<Head(s)>> \o Insert(x, Tail(s))

RECURSIVE sort(_)
sort(s) == IF s = <<>> THEN <<>> ELSE Insert(Head(s), sort(Tail(s)))

RECURSIVE Sum(_)
Sum(s) == IF s = <<>> THEN 0 ELSE Head(s) + Sum(Tail(s))

\* nanomath.get_N50 on an ascending array: the first element at which the
\* cumulative sum reaches half of the total
get_N50(readlengths) ==
    LET total == Sum(readlengths)
        hit == {i \in 1..Len(readlengths) :
                    2 * Sum(SubSeq(readlengths, 1, i)) >= total}
    IN  readlengths[CHOOSE i \in hit : \A j \in hit : i <= j]

\* str.replace('log_', '') on the lengths pointer
StripLog(pointer) == SelectSeq(pointer, LAMBDA piece : piece # "log_")

check_valid_format(f) == f \in ValidFormats
check_valid_color(c) == c \in ValidColors
check_valid_colormap(c) == c \in ValidColormaps

(***************************************************************************)
(* make_plots.  A plot request is recorded with the data it is handed:     *)
(* data holds, per data argument (x, y, array, df), the index labels of    *)
(* the rows passed; derived holds the rows a derived quantity (N50,        *)
(* minPID) was computed from; reads holds the columns the call reads.      *)
(***************************************************************************)
ColName(pointer) == IF pointer = <<"log_", "lengths">> THEN "log_lengths" ELSE "lengths"

Request(kind, group, log, s, data, derived, n50, reads) ==
    [kind |-> kind, group |-> group, log |-> log, path |-> s.path,
     title |-> s.title, data |-> data, derived |-> derived, n50 |-> n50,
     reads |-> reads]

\* a scatter of two columns of one selection of rows
Scatter(kind, group, log, s, sel, xcol, ycol, derived) ==
    Request(kind, group, log, s, <<Ids(sel), Ids(sel)>>, derived, None,
            {xcol, ycol})

\* lines 147-160
LengthPlots(df, cs, s) ==
    LET n50 == IF s.N50 THEN get_N50(sort(Column(df, "lengths"))) ELSE None
    IN  <<Request("length_plots", "lengths", FALSE, s, <<Ids(Filtered(df))>>,
                  IF s.N50 THEN Ids(df) ELSE <<>>, n50,
                  {"lengths", "length_filter"})>>

\* lines 162-189
LengthQual(df, cs, s) ==
    IF "quals" \in cs
    THEN <<Scatter("LengthvsQualityScatterPlot", "quals", FALSE, s, Filtered(df),
                   ColName(StripLog(s.lengths_pointer)), "quals", <<>>)>>
         \o (IF s.logBool
             THEN <<Scatter("LengthvsQualityScatterPlot", "quals", TRUE, s,
                            Filtered(df), ColName(s.lengths_pointer), "quals", <<>>)>>
             ELSE <<>>)
    ELSE <<>>

\* lines 190-199
SpatialHeatmap(df, cs, s) ==
    IF "channelIDs" \in cs
    THEN <<Request("ActivityMap_ReadsPerChannel", "channelIDs", FALSE, s,
                   <<Ids(df)>>, <<>>, None, {"channelIDs"})>>
    ELSE <<>>

\* lines 200-221
TimePlots(df, cs, s) ==
    IF "start_time" \in cs
    THEN <<Request("time_plots", "start_time", FALSE, s, <<Ids(df)>>, <<>>, None,
                   {"start_time"})>>
         \o (IF s.logBool
             THEN <<Request("time_plots", "start_time", TRUE, s, <<Ids(df)>>, <<>>,
                            None, {"start_time"})>>
             ELSE <<>>)
    ELSE <<>>

\* lines 222-235
AlignedLength(df, cs, s) ==
    IF "aligned_lengths" \in cs /\ "lengths" \in cs
    THEN <<Scatter("AlignedReadlengthvsSequencedReadLength", "aligned_lengths",
                   FALSE, s, Filtered(df), "aligned_lengths", "lengths", <<>>)>>
    ELSE <<>>

\* The gate of the mapping-quality group without its test of "quals".
MapQNoQualsGate(df, cs, s) ==
    IF "mapQ" \in cs
    THEN <<Scatter("MappingQualityvsAverageBaseQuality", "mapQ", FALSE, s, df,
                   "mapQ", "quals", <<>>),
           Scatter("MappingQualityvsReadLength", "mapQ", FALSE, s, Filtered(df),
                   ColName(StripLog(s.lengths_pointer)), "mapQ", <<>>)>>
         \o (IF s.logBool
             THEN <<Scatter("MappingQualityvsReadLength", "mapQ", TRUE, s,
                            Filtered(df), ColName(s.lengths_pointer), "mapQ", <<>>)>>
             ELSE <<>>)
    ELSE <<>>

\* lines 236-276
MapQ(df, cs, s) ==
    IF "mapQ" \in cs /\ "quals" \in cs
    THEN <<Scatter("MappingQualityvsAverageBaseQuality", "mapQ", FALSE, s, df,
                   "mapQ", "quals", <<>>),
           Scatter("MappingQualityvsReadLength", "mapQ", FALSE, s, Filtered(df),
                   ColName(StripLog(s.lengths_pointer)), "mapQ", <<>>)>>
         \o (IF s.logBool
             THEN <<Scatter("MappingQualityvsReadLength", "mapQ", TRUE, s,
                            Filtered(df), ColName(s.lengths_pointer), "mapQ", <<>>)>>
             ELSE <<>>)
    ELSE <<>>

\* The percent-identity group issuing its log variant whatever logBool is.
PercentIdentityAlwaysLog(df, cs, s) ==
    IF "percentIdentity" \in cs
    THEN (IF "aligned_quals" \in cs
          THEN <<Scatter("PercentIdentityvsAverageBaseQuality", "percentIdentity",
                         FALSE, s, df, "percentIdentity", "aligned_quals", Ids(df))>>
          ELSE <<>>)
         \o <<Scatter("PercentIdentityvsAlignedReadLength", "percentIdentity", FALSE,
                      s, Filtered(df), ColName(StripLog(s.lengths_pointer)),
                      "percentIdentity", Ids(df)),
              Scatter("PercentIdentityvsAlignedReadLength", "percentIdentity", TRUE,
                      s, Filtered(df), ColName(s.lengths_pointer),
                      "percentIdentity", Ids(df))>>
         \o <<Request("PercentIdentityHistogram", "percentIdentity", FALSE, s,
                      <<Ids(df)>>, <<>>, None, {"percentIdentity"})>>
    ELSE <<>>

\* lines 277-332; minPID is the first percentile of the whole percentIdentity column
PercentIdentity(df, cs, s) ==
    IF "percentIdentity" \in cs
    THEN (IF "aligned_quals" \in cs
          THEN <<Scatter("PercentIdentityvsAverageBaseQuality", "percentIdentity",
                         FALSE, s, df, "percentIdentity", "aligned_quals", Ids(df))>>
          ELSE <<>>)
         \o <<Scatter("PercentIdentityvsAlignedReadLength", "percentIdentity", FALSE,
                      s, Filtered(df), ColName(StripLog(s.lengths_pointer)),
                      "percentIdentity", Ids(df))>>
         \o (IF s.logBool
             THEN <<Scatter("PercentIdentityvsAlignedReadLength", "percentIdentity",
                            TRUE, s, Filtered(df), ColName(s.lengths_pointer),
                            "percentIdentity", Ids(df))>>
             ELSE <<>>)
         \o <<Request("PercentIdentityHistogram", "percentIdentity", FALSE, s,
                      <<Ids(df)>>, <<>>, None, {"percentIdentity"})>>
    ELSE <<>>

\* the requests of make_plots in the order the code issues them
PlotRequests(df, cs, s) ==
    LengthPlots(df, cs, s) \o LengthQual(df, cs, s) \o SpatialHeatmap(df, cs, s)
    \o TimePlots(df, cs, s) \o AlignedLength(df, cs, s) \o MapQ(df, cs, s)
    \o PercentIdentity(df, cs, s)

\* what the backend hands back for a request: dynamic_histogram returns one plot
\* (plots.append), every other call a list of plots (plots.extend)
Artifacts(req) ==
    [k \in 1..(IF req.kind = "PercentIdentityHistogram" THEN 1 ELSE ArtifactsPerRequest)
        |-> [kind |-> req.kind, group |-> req.group, path |-> req.path,
             title |-> req.title, log |-> req.log, k |-> k]]

\* the requests that are reached before a read of a column the table lacks
RECURSIVE Reached(_, _)
Reached(reqs, cs) ==
    IF reqs = <<>> \/ ~(Head(reqs).reads \subseteq cs) THEN <<>>
    ELSE <<Head(reqs)>> \o Reached(Tail(reqs), cs)

\* make_plots: lines 136-333
make_plots(df, cs, s) ==
    IF ~check_valid_color(s.color)
    THEN [err |-> "color", requests |-> <<>>, plots |-> <<>>]
    ELSE IF ~check_valid_colormap(s.colormap)
    THEN [err |-> "colormap", requests |-> <<>>, plots |-> <<>>]
    ELSE LET all == PlotRequests(df, cs, s)
             got == Reached(all, cs)
         IN  IF got # all
             THEN [err |-> "KeyError", requests |-> got, plots |-> <<>>]
             ELSE [err |-> "none", requests |-> all,
                   plots |-> Flatten([i \in 1..Len(all) |-> Artifacts(all[i])])]

(***************************************************************************)
(* make_stats and the files main writes.                                   *)
(***************************************************************************)
\* make_stats: lines 118-133, the files it writes, in order
make_stats(s, suffix) ==
    <<s.path \o <<"NanoStats">> \o suffix \o <<".txt">>>>
    \o (IF s.barcoded THEN <<s.path \o <<"NanoStats_barcoded.txt">>>> ELSE <<>>)

\* lines 68-76
PersistFiles(a, s) ==
    (IF a.store THEN <<s.path \o <<"NanoPlot-data.pickle">>>> ELSE <<>>)
    \o (IF a.raw THEN <<s.path \o <<"NanoPlot-data.tsv.gz">>>> ELSE <<>>)

\* line 351
ReportFile(s) == s.path \o <<"NanoPlot-report.html">>

\* report.BarcodeTitle(barc)
BarcodeTitle(barc) ==
    [kind |-> "BarcodeTitle", group |-> "BarcodeTitle", path |-> <<>>,
     title |-> barc, log |-> FALSE, k |-> 0]

\* path.join(args.outdir, args.prefix + barc + "_")
BarcodePath(a, barc) == <<a.outdir, a.prefix, barc, "_">>

(***************************************************************************)
(* The inputs of a run: the command line, the table ingestion returns,     *)
(* what the filter stage decides, and whether a collaborator may raise.    *)
(***************************************************************************)
Row(i, b, l, f) == [id |-> i, barcode |-> b, lengths |-> l, length_filter |-> f]

RunLens == {4, BarcodeThreshold, MaxRun}

\* the table made of the runs rs, a run being <<barcode, number of rows>>
RunTable(rs) ==
    LET bs == Flatten([i \in 1..Len(rs) |-> Repeat(rs[i][1], rs[i][2])])
    IN  [i \in 1..Len(bs) |-> Row(i, bs[i], 1, TRUE)]

FanOutTables == {RunTable(rs) : rs \in [1..NRuns -> Barcodes \X RunLens]}

SmallRows == [lengths : Lengths, length_filter : BOOLEAN]

SmallTables ==
    UNION {{[i \in 1..n |-> Row(i, "b1", t[i].lengths, t[i].length_filter)] :
                t \in [1..n -> SmallRows]} : n \in 1..MaxRows}

Config == [barcoded |-> FALSE, filtered |-> FALSE, loglength |-> FALSE,
           N50 |-> FALSE, color |-> "#4CB391", colormap |-> "Greens",
           format |-> "png", store |-> FALSE, raw |-> FALSE, faulty |-> FALSE,
           cols |-> {}, table |-> <<Row(1, "b1", 1, TRUE)>>]

BadConfigs ==
    {Config,
     [Config EXCEPT !.color = "nocolor"],
     [Config EXCEPT !.colormap = "nomap"],
     [Config EXCEPT !.format = "nofmt"]}

\* barcoded runs over tables of runs of barcodes, and, over the tables of two
\* runs, with valid and invalid options
FanOutInputs ==
    {[Config EXCEPT !.barcoded = TRUE, !.table = t] : t \in FanOutTables}
    \cup {[c EXCEPT !.barcoded = TRUE, !.table = RunTable(<<r1, r2>>)] :
            c \in BadConfigs, r1 \in Barcodes \X RunLens, r2 \in Barcodes \X RunLens}

\* unbarcoded runs over every set of optional columns
ColumnInputs ==
    {[Config EXCEPT !.cols = cs, !.loglength = lg, !.N50 = n, !.table = t] :
        cs \in SUBSET OptionalCols, lg \in BOOLEAN, n \in BOOLEAN,
        t \in {<<Row(1, "b1", 1, TRUE)>>,
               <<Row(1, "b1", 1, TRUE), Row(2, "b1", 6, FALSE)>>}}

\* unbarcoded runs over small tables of any lengths and filter outcomes
TableInputs ==
    {[Config EXCEPT !.N50 = n, !.table = t] : n \in BOOLEAN, t \in SmallTables}

\* runs in which a collaborator may raise, over every combination of the options
\* that decide which files are written
FaultyInputs ==
    {[Config EXCEPT !.barcoded = b, !.filtered = f, !.store = st, !.raw = rw,
                    !.faulty = fl, !.cols = {"quals"}, !.table = t] :
        b \in BOOLEAN, f \in BOOLEAN, st \in BOOLEAN, rw \in BOOLEAN,
        fl \in BOOLEAN,
        t \in {RunTable(<<<<"b1", 1>>>>), RunTable(<<<<"b1", MaxRun>>, <<"b2", 1>>>>)}}

Inputs == FanOutInputs \cup ColumnInputs \cup TableInputs \cup FaultyInputs

Outdir == "out/"
Prefix == "run_"

(***************************************************************************)
(* main                                                                    *)
(***************************************************************************)
Init ==
    /\ input \in Inputs
    /\ pc = "get_args"
    /\ args = <<>>
    /\ settings = <<>>
    /\ datadf = <<>>
    /\ cols = {}
    /\ loop = [main_path |-> <<>>, barcodes |-> <<>>, i |-> 0]
    /\ plots = <<>>
    /\ requests = <<>>
    /\ written = <<>>
    /\ out = [error |-> "none", logged |-> FALSE, message |-> FALSE,
              finished |-> FALSE, warned |-> <<>>, called |-> <<>>]

Raise(e) ==
    /\ pc' = "except"
    /\ out' = [out EXCEPT !.error = e]

\* line 37: utils.get_args()
GetArgs ==
    /\ pc = "get_args"
    /\ args' = [outdir |-> Outdir, prefix |-> Prefix, format |-> input.format,
                barcoded |-> input.barcoded, store |-> input.store,
                raw |-> input.raw]
    /\ settings' = [path |-> <<Outdir, Prefix>>, title |-> "None",
                    barcoded |-> input.barcoded, filtered |-> FALSE,
                    N50 |-> input.N50, logBool |-> FALSE,
                    lengths_pointer |-> <<"lengths">>, color |-> input.color,
                    colormap |-> input.colormap, format |-> input.format]
    /\ pc' = "setup"
    /\ UNCHANGED <<input, datadf, cols, loop, plots, requests, written, out>>

\* line 37 raising: the call stands before the try statement
GetArgsFail ==
    /\ pc = "get_args"
    /\ input.faulty
    /\ pc' = "raised"
    /\ out' = [out EXCEPT !.error = "external"]
    /\ UNCHANGED <<input, args, settings, datadf, cols, loop, plots, requests, written>>

\* lines 39-40: make_output_dir, init_logs
Setup ==
    /\ pc = "setup"
    /\ pc' = "check_format"
    /\ UNCHANGED <<input, args, settings, datadf, cols, loop, plots, requests,
                   written, out>>

\* line 41
CheckFormat ==
    /\ pc = "check_format"
    /\ IF check_valid_format(args.format)
       THEN pc' = "get_data" /\ out' = out
       ELSE Raise("format")
    /\ UNCHANGED <<input, args, settings, datadf, cols, loop, plots, requests, written>>

\* lines 42-67: the table as ingestion returns it
GetData ==
    /\ pc = "get_data"
    /\ datadf' = [i \in 1..Len(input.table) |->
                    [id |-> input.table[i].id, barcode |-> input.table[i].barcode,
                     lengths |-> input.table[i].lengths]]
    /\ cols' = {"lengths"} \cup input.cols
               \cup (IF args.barcoded THEN {"barcode"} ELSE {})
    /\ pc' = "persist"
    /\ UNCHANGED <<input, args, settings, loop, plots, requests, written, out>>

\* lines 68-76
Persist ==
    /\ pc = "persist"
    /\ written' = written \o PersistFiles(args, settings)
    /\ pc' = "stats_pre"
    /\ UNCHANGED <<input, args, settings, datadf, cols, loop, plots, requests, out>>

\* line 78
StatsPre ==
    /\ pc = "stats_pre"
    /\ written' = written \o make_stats(settings, <<>>)
    /\ pc' = "filter"
    /\ UNCHANGED <<input, args, settings, datadf, cols, loop, plots, requests, out>>

\* line 79: filter_and_transform_data adds length_filter (and log_lengths)
Filter ==
    /\ pc = "filter"
    /\ datadf' = [i \in 1..Len(datadf) |->
                    Row(datadf[i].id, datadf[i].barcode, datadf[i].lengths,
                        input.table[i].length_filter)]
    /\ cols' = cols \cup {"length_filter"}
               \cup (IF input.loglength THEN {"log_lengths"} ELSE {})
    /\ settings' = [settings EXCEPT
                      !.filtered = input.filtered,
                      !.logBool = input.loglength,
                      !.lengths_pointer = IF input.loglength
                                          THEN <<"log_", "lengths">>
                                          ELSE <<"lengths">>]
    /\ pc' = "stats_post"
    /\ UNCHANGED <<input, args, loop, plots, requests, written, out>>

\* lines 80-84
StatsPost ==
    /\ pc = "stats_post"
    /\ written' = IF settings.filtered
                  THEN written \o make_stats(settings, <<"_post_filtering">>)
                  ELSE written
    /\ pc' = IF args.barcoded THEN "barcoded" ELSE "plot"
    /\ UNCHANGED <<input, args, settings, datadf, cols, loop, plots, requests, out>>

\* lines 87-89
BarcodedStart ==
    /\ pc = "barcoded"
    /\ loop' = [main_path |-> settings.path,
                barcodes |-> unique(Column(datadf, "barcode")), i |-> 1]
    /\ plots' = <<>>
    /\ pc' = "loop"
    /\ UNCHANGED <<input, args, settings, datadf, cols, requests, written, out>>

\* The loop body appending the marker after the group's plots.
BarcodeStepMarkerLast ==
    /\ pc = "loop"
    /\ loop.i <= Len(loop.barcodes)
    /\ LET barc == loop.barcodes[loop.i]
           dfbarc == OfBarcode(datadf, barc)
           s == [settings EXCEPT !.title = barc, !.path = BarcodePath(args, barc)]
           res == make_plots(dfbarc, cols, s)
       IN  IF Len(dfbarc) > BarcodeThreshold
           THEN /\ settings' = s
                /\ requests' = requests \o res.requests
                /\ IF res.err = "none"
                   THEN /\ plots' = plots \o res.plots \o <<BarcodeTitle(barc)>>
                        /\ loop' = [loop EXCEPT !.i = loop.i + 1]
                        /\ out' = [out EXCEPT !.called = Append(out.called, barc)]
                        /\ pc' = pc
                   ELSE /\ plots' = Append(plots, BarcodeTitle(barc))
                        /\ loop' = loop
                        /\ pc' = "except"
                        /\ out' = [out EXCEPT !.error = res.err,
                                              !.called = Append(out.called, barc)]
           ELSE /\ out' = [out EXCEPT !.warned = Append(out.warned, barc)]
                /\ loop' = [loop EXCEPT !.i = loop.i + 1]
                /\ pc' = pc
                /\ UNCHANGED <<settings, plots, requests>>
    /\ UNCHANGED <<input, args, datadf, cols, written>>

\* lines 90-102: one iteration of the loop over the barcodes
BarcodeStep ==
    /\ pc = "loop"
    /\ loop.i <= Len(loop.barcodes)
    /\ LET barc == loop.barcodes[loop.i]
           dfbarc == OfBarcode(datadf, barc)
           s == [settings EXCEPT !.title = barc, !.path = BarcodePath(args, barc)]
           res == make_plots(dfbarc, cols, s)
       IN  IF Len(dfbarc) > BarcodeThreshold
           THEN /\ settings' = s
                /\ requests' = requests \o res.requests
                /\ IF res.err = "none"
                   THEN /\ plots' = Append(plots, BarcodeTitle(barc)) \o res.plots
                        /\ loop' = [loop EXCEPT !.i = loop.i + 1]
                        /\ out' = [out EXCEPT !.called = Append(out.called, barc)]
                        /\ pc' = pc
                   ELSE /\ plots' = Append(plots, BarcodeTitle(barc))
                        /\ loop' = loop
                        /\ pc' = "except"
                        /\ out' = [out EXCEPT !.error = res.err,
                                              !.called = Append(out.called, barc)]
           ELSE /\ out' = [out EXCEPT !.warned = Append(out.warned, barc)]
                /\ loop' = [loop EXCEPT !.i = loop.i + 1]
                /\ pc' = pc
                /\ UNCHANGED <<settings, plots, requests>>
    /\ UNCHANGED <<input, args, datadf, cols, written>>

\* line 103
BarcodedEnd ==
    /\ pc = "loop"
    /\ loop.i > Len(loop.barcodes)
    /\ settings' = [settings EXCEPT !.path = loop.main_path]
    /\ pc' = "report"
    /\ UNCHANGED <<input, args, datadf, cols, loop, plots, requests, written, out>>

\* line 105
Unbarcoded ==
    /\ pc = "plot"
    /\ LET res == make_plots(datadf, cols, settings)
       IN  /\ requests' = requests \o res.requests
           /\ IF res.err = "none"
              THEN plots' = res.plots /\ pc' = "report" /\ out' = out
              ELSE plots' = plots /\ Raise(res.err)
    /\ UNCHANGED <<input, args, settings, datadf, cols, loop, written>>

\* line 106: make_report, lines 336-352
MakeReport ==
    /\ pc = "report"
    /\ written' = Append(written, ReportFile(settings))
    /\ pc' = "finished"
    /\ UNCHANGED <<input, args, settings, datadf, cols, loop, plots, requests, out>>

\* line 107
Finished ==
    /\ pc = "finished"
    /\ out' = [out EXCEPT !.finished = TRUE]
    /\ pc' = "done"
    /\ UNCHANGED <<input, args, settings, datadf, cols, loop, plots, requests, written>>

FailStages == {"setup", "get_data", "persist", "stats_pre", "filter",
               "stats_post", "report"}

\* a collaborator raising inside the try statement, outside the plot requests
Fail ==
    /\ input.faulty
    /\ pc \in FailStages
    /\ Raise("external")
    /\ UNCHANGED <<input, args, settings, datadf, cols, loop, plots, requests, written>>

\* the plotting backend raising on the k-th request of the unbarcoded make_plots
BackendFail ==
    /\ input.faulty
    /\ pc = "plot"
    /\ LET res == make_plots(datadf, cols, settings)
       IN  /\ res.err = "none"
           /\ \E k \in 1..Len(res.requests) :
                requests' = requests \o SubSeq(res.requests, 1, k)
    /\ Raise("external")
    /\ UNCHANGED <<input, args, settings, datadf, cols, loop, plots, written>>

\* the plotting backend raising on the k-th request of a barcode group's make_plots
BarcodeBackendFail ==
    /\ input.faulty
    /\ pc = "loop"
    /\ loop.i <= Len(loop.barcodes)
    /\ LET barc == loop.barcodes[loop.i]
           dfbarc == OfBarcode(datadf, barc)
           s == [settings EXCEPT !.title = barc, !.path = BarcodePath(args, barc)]
           res == make_plots(dfbarc, cols, s)
       IN  /\ Len(dfbarc) > BarcodeThreshold
           /\ res.err = "none"
           /\ settings' = s
           /\ plots' = Append(plots, BarcodeTitle(barc))
           /\ out' = [out EXCEPT !.error = "external",
                                 !.called = Append(out.called, barc)]
           /\ \E k \in 1..Len(res.requests) :
                requests' = requests \o SubSeq(res.requests, 1, k)
    /\ pc' = "except"
    /\ UNCHANGED <<input, args, datadf, cols, loop, written>>

\* The boundary swallowing the failure: no log entry, no message.
BoundarySilent ==
    /\ pc = "except"
    /\ pc' = "raised"
    /\ UNCHANGED <<input, args, settings, datadf, cols, loop, plots, requests,
                   written, out>>

\* lines 108-115: log, print the message, re-raise
Boundary ==
    /\ pc = "except"
    /\ out' = [out EXCEPT !.logged = TRUE, !.message = TRUE]
    /\ pc' = "raised"
    /\ UNCHANGED <<input, args, settings, datadf, cols, loop, plots, requests, written>>

Next ==
    \/ GetArgs \/ GetArgsFail \/ Setup \/ CheckFormat \/ GetData \/ Persist
    \/ StatsPre \/ Filter \/ StatsPost \/ BarcodedStart \/ BarcodeStep
    \/ BarcodedEnd \/ Unbarcoded \/ MakeReport \/ Finished \/ Fail
    \/ BackendFail \/ BarcodeBackendFail \/ Boundary

Spec == Init /\ [][Next]_vars

(***************************************************************************)
(* The claims.                                                             *)
(***************************************************************************)
SeqSet(q) == {q[i] : i \in 1..Len(q)}

NoDuplicates(q) == \A i, j \in 1..Len(q) : q[i] = q[j] => i = j

Past(stages) == pc \in stages

AfterPlots == {"report", "finished", "done"}

GroupRequests(g) == SelectSeq(requests, LAMBDA r : r.group = g)

PathRequests(p) == SelectSeq(requests, LAMBDA r : r.path = p)

CountGroup(ps, g) == Len(SelectSeq(ps, LAMBDA a : a.group = g))

CountKind(ps, kind) == Len(SelectSeq(ps, LAMBDA a : a.kind = kind))

ReportWritten == \E i \in 1..Len(written) : written[i][Len(written[i])] = "NanoPlot-report.html"

InvalidConfig ==
    \/ ~check_valid_color(input.color)
    \/ ~check_valid_colormap(input.colormap)
    \/ ~check_valid_format(input.format)

\* C1: in barcoded mode a group of 1 to 4 rows issues no plot request, adds nothing
\* to the plot list and is only warned about, and a group of 5 rows or more is
\* processed: make_plots is called on it and its artifacts are in the plot list.
OrigC1 ==
    (input.barcoded /\ ~InvalidConfig /\ ~input.faulty /\ Past(AfterPlots)) =>
        \A b \in SeqSet(Column(datadf, "barcode")) :
            LET n == Len(OfBarcode(datadf, b))
                mine == SelectSeq(plots, LAMBDA a : a.path = BarcodePath(args, b))
            IN  /\ n < 5 => /\ PathRequests(BarcodePath(args, b)) = <<>>
                            /\ mine = <<>>
                            /\ b \in SeqSet(out.warned)
                /\ n >= 5 => /\ b \in SeqSet(out.called)
                             /\ mine # <<>>

\* C2: every data argument of a plot request, and the rows every derived quantity
\* (N50, minPID) is computed from, are rows whose length_filter is true, except for
\* the spatial heatmap and the mapQ-vs-average-base-quality scatter.
OrigC2 ==
    \A i \in 1..Len(requests) :
        LET r == requests[i]
            ok == SeqSet(Ids(Filtered(datadf)))
        IN  r.kind \notin {"ActivityMap_ReadsPerChannel",
                           "MappingQualityvsAverageBaseQuality"} =>
                /\ \A a \in 1..Len(r.data) : SeqSet(r.data[a]) \subseteq ok
                /\ SeqSet(r.derived) \subseteq ok

\* C3: with an invalid color, colormap or output format no plot request is ever
\* issued, no HTML report is written and the run does not complete, in unbarcoded
\* and in barcoded mode, also when no barcode group qualifies.
OrigC3 ==
    InvalidConfig => /\ requests = <<>>
                     /\ ~ReportWritten
                     /\ ~out.finished

\* C4: in barcoded mode, when make_report is called after the fan-out,
\* settings["path"] and settings["title"] both have the values they had before
\* the fan-out started.
OrigC4 ==
    (input.barcoded /\ Past(AfterPlots)) =>
        /\ settings.path = loop.main_path
        /\ settings.title = "None"

LogGroups == {"quals", "start_time", "mapQ", "percentIdentity"}

LogKinds == {"LengthvsQualityScatterPlot", "time_plots",
             "MappingQualityvsReadLength", "PercentIdentityvsAlignedReadLength"}

\* the plot list of the same table with the log-scale option disabled
LogOff == make_plots(datadf, cols, [settings EXCEPT !.logBool = FALSE]).plots

LogRun == ~input.barcoded /\ pc = "report" /\ settings.logBool

\* C5: with the log-scale option enabled the artifact count of every group that
\* defines a log variant (length-vs-quality, time-series, mapping-quality,
\* percent-identity) is exactly twice its count with the option disabled.
OrigC5 ==
    LogRun => \A g \in LogGroups : CountGroup(plots, g) = 2 * CountGroup(LogOff, g)

\* C5 as amended: with the log-scale option enabled the artifact count of every
\* plot that defines a log variant is exactly twice its count with the option
\* disabled and every other plot keeps its count; so the length-vs-quality and
\* time-series groups double, and the mapping-quality and percent-identity groups,
\* when they run, grow by the artifacts of one request.
TheoremC5 ==
    LogRun =>
        /\ \A k \in LogKinds : CountKind(plots, k) = 2 * CountKind(LogOff, k)
        /\ \A k \in {plots[i].kind : i \in 1..Len(plots)} \ LogKinds :
                CountKind(plots, k) = CountKind(LogOff, k)
        /\ \A g \in {"quals", "start_time"} :
                CountGroup(plots, g) = 2 * CountGroup(LogOff, g)
        /\ \A g \in {"mapQ", "percentIdentity"} :
                CountGroup(LogOff, g) > 0 =>
                    CountGroup(plots, g) = CountGroup(LogOff, g) + ArtifactsPerRequest

WitnessC5 ==
    /\ LogRun
    /\ {"quals", "start_time", "mapQ", "percentIdentity"} \subseteq cols
    /\ CountGroup(plots, "quals") = 2 * ArtifactsPerRequest
    /\ CountGroup(plots, "mapQ") = 3 * ArtifactsPerRequest

GatedGroups == {"quals", "channelIDs", "start_time", "aligned_lengths", "mapQ",
                "percentIdentity"}

Required(g) == IF g = "mapQ" THEN {"mapQ", "quals"} ELSE {g}

\* the output paths of the make_plots calls that returned
ReturnedPaths ==
    IF input.barcoded THEN {BarcodePath(args, b) : b \in SeqSet(out.called)}
    ELSE {settings.path}

\* C6: for a table lacking column X the plot group gated on X issues no request,
\* adds no artifact and raises no error, while the length plots and every group
\* whose required columns are all present still run (the mapping-quality group
\* requires mapQ and quals).
TheoremC6 ==
    /\ out.error # "KeyError"
    /\ \A g \in GatedGroups :
          ~(Required(g) \subseteq cols) =>
              /\ GroupRequests(g) = <<>>
              /\ CountGroup(plots, g) = 0
    /\ Past(AfterPlots) =>
          \A p \in ReturnedPaths :
              \A g \in GatedGroups \cup {"lengths"} :
                  Required(g) \subseteq cols =>
                      /\ \E i \in 1..Len(requests) :
                            requests[i].group = g /\ requests[i].path = p
                      /\ \E i \in 1..Len(plots) :
                            plots[i].group = g /\ plots[i].path = p

WitnessC6 ==
    /\ pc = "report"
    /\ "mapQ" \in cols /\ "quals" \notin cols /\ "percentIdentity" \notin cols
    /\ "channelIDs" \in cols
    /\ GroupRequests("channelIDs") # <<>>
    /\ GroupRequests("lengths") # <<>>

FirstIndex(q, x) == CHOOSE i \in 1..Len(q) : q[i] = x /\ IsFirst(q, i)

MarkerTitles ==
    LET ms == SelectSeq(plots, LAMBDA a : a.kind = "BarcodeTitle")
    IN  [i \in 1..Len(ms) |-> ms[i].title]

\* the artifacts the backend returned for the requests made with output path p
PathArtifacts(p) ==
    LET rs == PathRequests(p)
    IN  Flatten([i \in 1..Len(rs) |-> Artifacts(rs[i])])

Failed == pc = "raised"

AtBoundary == out.logged /\ out.message

\* C8: every failure raised in any stage of main, argument parsing included, is
\* logged at the boundary and the user-facing message emitted before it is
\* re-raised, and then no report is written and completion is not logged.
OrigC8 ==
    Failed => AtBoundary /\ ~ReportWritten /\ ~out.finished

\* C8 as amended: every failure raised in a stage of main after argument parsing
\* reaches the boundary, where it is logged and the message emitted before it is
\* re-raised, and a failure of argument parsing is re-raised without either; after
\* any failure no report is written and completion is not logged; on a run without
\* failure the report is written exactly once, and no plot request follows it.
TheoremC8 ==
    /\ [](/\ Failed => /\ AtBoundary <=> (args # <<>>)
                       /\ ~ReportWritten
                       /\ ~out.finished
          /\ ~Failed => ~out.logged /\ ~out.message
          /\ out.finished => pc = "done"
          /\ pc = "done" => /\ out.finished /\ out.error = "none"
                            /\ Len(SelectSeq(written,
                                   LAMBDA f : f = ReportFile(settings))) = 1
          /\ ReportWritten <=> pc \in {"finished", "done"})
    /\ [][ReportWritten => requests' = requests]_vars

WitnessC8 ==
    /\ Failed
    /\ AtBoundary
    /\ out.error = "external"
    /\ requests # <<>>
    /\ written # <<>>

\* the rows of the table with the index labels ids
RowsOf(ids) == SelectSeq(datadf, LAMBDA r : r.id \in SeqSet(ids))

\* C9: the n50 handed to the length-plot request is null when N50 annotation is
\* disabled, and otherwise the N50 of the lengths of the rows whose length_filter
\* is true, the rows whose lengths are plotted.
OrigC9 ==
    \A i \in 1..Len(requests) :
        LET r == requests[i]
        IN  r.kind = "length_plots" =>
                IF settings.N50
                THEN r.data[1] # <<>> =>
                        r.n50 = get_N50(sort(Column(RowsOf(r.data[1]), "lengths")))
                ELSE r.n50 = None

\* C10: within one run no output file of this module is written more than once.
OrigC10 == NoDuplicates(written)

====
